---- MODULE Spec2Model ----
(***************************************************************************)
(* Tool-approval and execution gating of ava: the agent loop               *)
(* (Agent::process), the approvers (CliApprover, TelegramApprover), the    *)
(* pending-approval registry shared with the callback handler, the rule    *)
(* store and the tool executor.                                            *)
(*                                                                         *)
(* Strings on which the code computes (commands, patterns, callback data)  *)
(* are sequences of one-character strings; strings that are only compared  *)
(* or passed on (tool names, result texts, error names) are TLA+ strings.  *)
(***************************************************************************)
EXTENDS Integers, Sequences, FiniteSets, TLC

(* ------------------------------------------------------------------ *)
(* Bounds of the model                                                  *)
(* ------------------------------------------------------------------ *)

\* most tool calls in one model response
MaxCalls == 2

\* number of distinct values rand_u32 can take in the model
NumNonces == 2

\* number of concurrently running callback handlers in SpecApprover
NumHandlers == 2

\* number of concurrent request_approval calls in SpecRequests
NumReqs == 2

\* the largest rule id the operations of SpecRules go up to
MaxRuleIds == 3

\* most whitespace-separated pieces of a pattern or command in SpecMatcher
MaxTokens == 3

(* ------------------------------------------------------------------ *)
(* Characters and strings                                               *)
(* ------------------------------------------------------------------ *)

IsWhitespace(ch) == ch \in {" ", "\t", "\n"}

RECURSIVE TrimStart(_)
TrimStart(s) ==
    IF s = <<>> THEN <<>>
    ELSE IF IsWhitespace(Head(s)) THEN TrimStart(Tail(s))
    ELSE s

RECURSIVE TrimEnd(_)
TrimEnd(s) ==
    IF s = <<>> THEN <<>>
    ELSE IF IsWhitespace(s[Len(s)]) THEN TrimEnd(SubSeq(s, 1, Len(s) - 1))
    ELSE s

\* str::trim
Trim(s) == TrimEnd(TrimStart(s))

\* str::contains with a string pattern
Contains(s, p) ==
    \E i \in 0..(Len(s) - Len(p)) : SubSeq(s, i + 1, i + Len(p)) = p

\* str::split_whitespace: the maximal runs of non-whitespace characters
RECURSIVE SplitWs(_, _, _)
SplitWs(s, cur, acc) ==
    IF s = <<>> THEN (IF cur = <<>> THEN acc ELSE Append(acc, cur))
    ELSE IF IsWhitespace(Head(s))
         THEN SplitWs(Tail(s), <<>>, IF cur = <<>> THEN acc ELSE Append(acc, cur))
         ELSE SplitWs(Tail(s), Append(cur, Head(s)), acc)

split_whitespace(s) == SplitWs(s, <<>>, <<>>)

(* ------------------------------------------------------------------ *)
(* Commands, patterns and texts used as inputs                          *)
(* ------------------------------------------------------------------ *)

\* "rm -rf /"
CmdRm == <<"r", "m", " ", "-", "r", "f", " ", "/">>

\* "cargo test -- --nocapture"
CmdCargo == <<"c", "a", "r", "g", "o", " ", "t", "e", "s", "t", " ",
              "-", "-", " ", "-", "-", "n", "o", "c", "a", "p", "t", "u", "r", "e">>

\* "<unknown command>", the approver's text for an input without a command
UnknownCommand == <<"<", "u", "n", "k", "n", "o", "w", "n", " ",
                    "c", "o", "m", "m", "a", "n", "d", ">">>

Commands == {CmdRm, CmdCargo}

\* "echo $TELOXIDE_TOKEN"
CmdEnv == <<"e", "c", "h", "o", " ", "$", "T", "E", "L", "O", "X", "I", "D", "E",
            "_", "T", "O", "K", "E", "N">>

SENSITIVE_VARS ==
    << <<"A", "N", "T", "H", "R", "O", "P", "I", "C", "_", "A", "P", "I", "_", "K", "E", "Y">>,
       <<"T", "E", "L", "O", "X", "I", "D", "E", "_", "T", "O", "K", "E", "N">> >>

\* tool::references_sensitive_env
references_sensitive_env(command) ==
    \E k \in 1..Len(SENSITIVE_VARS) : Contains(command, SENSITIVE_VARS[k])

(* ------------------------------------------------------------------ *)
(* Safety filter                                                        *)
(* ------------------------------------------------------------------ *)

BLOCKED_PATTERNS ==
    << <<"r", "m", " ", "-", "r", "f", " ", "/">>,
       <<"r", "m", " ", "-", "r", "f", " ", "/", "*">>,
       <<"m", "k", "f", "s">>,
       <<"d", "d", " ", "i", "f", "=">>,
       <<">", " ", "/", "d", "e", "v", "/", "s", "d">>,
       <<":", "(", ")", "{", " ", ":", "|", ":", "&", " ", "}", ";", ":">>,
       <<".", "f", "o", "r", "k">> >>

SafetyFilterReason == "command blocked: matches safety filter"

NoReason == "none"

check_safety_filter_skip_first(command) ==
    IF \E i \in 2..Len(BLOCKED_PATTERNS) : Contains(Trim(command), BLOCKED_PATTERNS[i])
    THEN SafetyFilterReason
    ELSE NoReason

check_safety_filter_exact(command) ==
    IF \E i \in 1..Len(BLOCKED_PATTERNS) : Trim(command) = BLOCKED_PATTERNS[i]
    THEN SafetyFilterReason
    ELSE NoReason

\* Some(reason) when the trimmed command contains a deny-list string
check_safety_filter(command) ==
    IF \E i \in 1..Len(BLOCKED_PATTERNS) : Contains(Trim(command), BLOCKED_PATTERNS[i])
    THEN SafetyFilterReason
    ELSE NoReason

(* ------------------------------------------------------------------ *)
(* Pattern matcher and rule store                                       *)
(* ------------------------------------------------------------------ *)

IsSeparatorAt(s, i) ==
    \/ s[i] = "|"
    \/ s[i] = ";"
    \/ (s[i] = "&" /\ i + 1 <= Len(s) /\ s[i + 1] = "&")

SeparatorLen(s, i) ==
    IF s[i] = "|" THEN (IF i + 1 <= Len(s) /\ s[i + 1] = "|" THEN 2 ELSE 1)
    ELSE IF s[i] = "&" THEN 2
    ELSE 1

\* the while loop of split_subcommands: i and start are 1-based here
RECURSIVE SplitSub(_, _, _, _)
SplitSub(s, i, start, parts) ==
    IF i > Len(s)
    THEN (IF start <= Len(s) THEN Append(parts, SubSeq(s, start, Len(s))) ELSE parts)
    ELSE IF IsSeparatorAt(s, i)
         THEN SplitSub(s, i + SeparatorLen(s, i), i + SeparatorLen(s, i),
                       Append(parts, SubSeq(s, start, i - 1)))
         ELSE SplitSub(s, i + 1, start, parts)

split_subcommands(command) == SplitSub(command, 1, 1, <<>>)

Star == <<"*">>

\* the for loop of matches_single from pattern position i on
RECURSIVE MatchFromStrict(_, _, _)
MatchFromStrict(pt, ct, i) ==
    IF i > Len(pt) THEN Len(ct) = Len(pt)
    ELSE IF pt[i] = Star
         THEN (IF i > Len(ct) THEN FALSE
               ELSE IF i = Len(pt) THEN TRUE
               ELSE MatchFromStrict(pt, ct, i + 1))
         ELSE IF i > Len(ct) THEN FALSE
         ELSE IF pt[i] # ct[i] THEN FALSE
         ELSE MatchFromStrict(pt, ct, i + 1)

RECURSIVE MatchFromLoose(_, _, _)
MatchFromLoose(pt, ct, i) ==
    IF i > Len(pt) THEN Len(ct) = Len(pt)
    ELSE IF pt[i] = Star
         THEN (IF i = Len(pt) THEN TRUE
               ELSE MatchFromLoose(pt, ct, i + 1))
         ELSE IF i > Len(ct) THEN FALSE
         ELSE IF pt[i] # ct[i] THEN FALSE
         ELSE MatchFromLoose(pt, ct, i + 1)

RECURSIVE MatchFrom(_, _, _)
MatchFrom(pt, ct, i) ==
    IF i > Len(pt) THEN Len(ct) = Len(pt)
    ELSE IF pt[i] = Star
         THEN (IF i = Len(pt) THEN TRUE
               ELSE IF i > Len(ct) THEN FALSE
               ELSE MatchFrom(pt, ct, i + 1))
         ELSE IF i > Len(ct) THEN FALSE
         ELSE IF pt[i] # ct[i] THEN FALSE
         ELSE MatchFrom(pt, ct, i + 1)

matches_single(pattern, command) ==
    LET pt == split_whitespace(pattern)
        ct == split_whitespace(command)
    IN  IF pt = <<>> THEN ct = <<>> ELSE MatchFrom(pt, ct, 1)

matches_rule(pattern, command) ==
    LET subs == split_subcommands(command)
    IN  \A k \in 1..Len(subs) : matches_single(pattern, Trim(subs[k]))

generate_pattern_whole(command) == command \o <<" ", "*">>

\* first whitespace token (or the command itself when it has none) + " *"
generate_pattern(command) ==
    LET toks == split_whitespace(command)
        first == IF toks = <<>> THEN command ELSE toks[1]
    IN  first \o <<" ", "*">>

\* the rows of approval_rules in id order: <<[id |-> 1, pattern |-> ...], ...>>
list_approval_rules(rs) == rs

RulePatterns(rs) == {rs[k].pattern : k \in 1..Len(rs)}

MaxRuleId(rs) ==
    IF rs = <<>> THEN 0
    ELSE CHOOSE m \in {rs[k].id : k \in 1..Len(rs)} :
            \A k \in 1..Len(rs) : rs[k].id <= m

\* table approval_rules: the column pattern is unique
PatternConflict(rs, pattern) == pattern \in RulePatterns(rs)

\* table approval_rules: the id of a new row
NextRuleId(rs) == MaxRuleId(rs) + 1

save_approval_rule_lost(rs, pattern) == rs

save_approval_rule_dup(rs, pattern) ==
    Append(rs, [id |-> NextRuleId(rs), pattern |-> pattern])

\* INSERT OR IGNORE INTO approval_rules (pattern)
save_approval_rule(rs, pattern) ==
    IF PatternConflict(rs, pattern) THEN rs
    ELSE Append(rs, [id |-> NextRuleId(rs), pattern |-> pattern])

\* DELETE FROM approval_rules WHERE id = ?1
delete_approval_rule(rs, id) == SelectSeq(rs, LAMBDA rule : rule.id # id)

find_matching_rule_last(rs, command) ==
    LET rules_ == list_approval_rules(rs)
        hits == {k \in 1..Len(rules_) : matches_rule(rules_[k].pattern, command)}
    IN  IF hits = {} THEN 0
        ELSE rules_[CHOOSE k \in hits : \A j \in hits : k >= j].id

\* id of the first rule, in id order, that matches; 0 stands for None
find_matching_rule(rs, command) ==
    LET rules_ == list_approval_rules(rs)
        hits == {k \in 1..Len(rules_) : matches_rule(rules_[k].pattern, command)}
    IN  IF hits = {} THEN 0
        ELSE rules_[CHOOSE k \in hits : \A j \in hits : k <= j].id

(* ------------------------------------------------------------------ *)
(* Tool calls, decisions, results                                       *)
(* ------------------------------------------------------------------ *)

EXEC_TOOL_NAME == "exec"

REMEMBER_FACT_TOOL_NAME == "remember_fact"

WEB_SEARCH_TOOL_NAME == "web_search"

WEB_FETCH_TOOL_NAME == "web_fetch"

AllowOnce == [kind |-> "AllowOnce", pattern |-> <<>>]

AllowAlways(p) == [kind |-> "AllowAlways", pattern |-> p]

Deny == [kind |-> "Deny", pattern |-> <<>>]

AutoApproved == [kind |-> "AutoApproved", pattern |-> <<>>]

NoDecision == [kind |-> "None", pattern |-> <<>>]

\* Result<ApprovalDecision, Error>
RetOk(d) == [ok |-> TRUE, decision |-> d, err |-> "none"]

RetErr(e) == [ok |-> FALSE, decision |-> NoDecision, err |-> e]

NoRet == [ok |-> FALSE, decision |-> NoDecision, err |-> "pending"]

\* the input of a tool call: valid says that it deserializes into the
\* tool's input struct; command is its "command" string (exec only)
ExecInputs == {[valid |-> TRUE, command |-> c] : c \in Commands}

\* name and input of the tool calls a model response is drawn from
ToolCallPool ==
    {[name |-> EXEC_TOOL_NAME, input |-> i] : i \in ExecInputs}
        \cup {[name |-> REMEMBER_FACT_TOOL_NAME, input |-> [valid |-> TRUE, command |-> <<>>]],
              [name |-> "bogus", input |-> [valid |-> TRUE, command |-> <<>>]]}

\* the id the provider gives the i-th tool call of a response
CallId(i) == <<"toolu", i>>

\* the responses with tool calls: 1..MaxCalls calls, ids unique in the turn
ToolCallSeqs ==
    UNION {[1..n -> ToolCallPool] : n \in 1..MaxCalls}

\* the responses with 1..MaxCalls calls of any tool: one call of each tool
\* the provider is told about, and one of a tool it is not
AllToolsSeqs ==
    LET pool ==
            {[name |-> EXEC_TOOL_NAME, input |-> [valid |-> TRUE, command |-> CmdCargo]]}
                \cup {[name |-> n, input |-> [valid |-> TRUE, command |-> <<>>]] :
                         n \in {REMEMBER_FACT_TOOL_NAME, WEB_SEARCH_TOOL_NAME,
                                WEB_FETCH_TOOL_NAME, "bogus"}}
    IN  UNION {[1..n -> pool] : n \in 1..MaxCalls}

WithIds(cs) == [i \in 1..Len(cs) |-> [id |-> CallId(i), name |-> cs[i].name, input |-> cs[i].input]]

requires_approval_never(tool_call) == FALSE

requires_approval_any(tool_call) == TRUE

\* tool::requires_approval
requires_approval(tool_call) == tool_call.name = EXEC_TOOL_NAME

tool_result_first_id(id, text) == [tool_use_id |-> <<"toolu", 1>>, content |-> text]

\* MessageContent::tool_result
tool_result(id, text) == [tool_use_id |-> id, content |-> text]

DeniedText == "command denied by user"

\* the result of a denied call
DeniedResult(call) == tool_result(call.id, DeniedText)

ProceedsAlways(decision) == TRUE

\* the match on the decision: every decision but Deny goes on to execution
Proceeds(decision) == decision.kind # "Deny"

RoundLimitExceededLate(rounds) == rounds > 6

\* the hard round counter
RoundLimitExceeded(rounds) == rounds > 5

\* what running a command that passed the filter can report
SpawnOutcomes == {"exit code", "failed to execute command", "command timed out"}

\* the event record of one tool call of the current round
NewLog == [approvals |-> 0, decisions |-> <<>>, executed |-> FALSE, spawned |-> FALSE]

(* ------------------------------------------------------------------ *)
(* Callback data                                                        *)
(* ------------------------------------------------------------------ *)

Colon == <<":">>

ExecPrefix == <<"e", "x", "e", "c">>

HexDigit(n) == <<"0", "1", "2", "3", "4", "5", "6", "7", "8", "9">>[n + 1]

\* format!("{:08x}", v) for the values rand_u32 takes in the model
NonceStr(v) == <<"0", "0", "0", "0", "0", "0", "0", HexDigit(v)>>

\* the strings rand_u32 can lead to
Nonces == {NonceStr(v) : v \in 1..NumNonces}

\* the nonce of the requests of the one conversation of Spec
AgentNonces == {NonceStr(1)}

\* a nonce no request ever gets
ForeignNonce == <<"d", "e", "a", "d", "b", "e", "e", "f">>

ActAllowOnce == <<"a", "l", "l", "o", "w", "_", "o", "n", "c", "e">>

ActAllowAlways == <<"a", "l", "l", "o", "w", "_", "a", "l", "w", "a", "y", "s">>

ActDeny == <<"d", "e", "n", "y">>

ActBogus == <<"n", "o", "p", "e">>

\* "allow_always:rm *": an allow-always with a pattern of the client's
ActAllowAlwaysWith == ActAllowAlways \o <<":", "r", "m", " ", "*">>

Actions == {ActAllowOnce, ActAllowAlways, ActDeny, ActBogus, ActAllowAlwaysWith}

\* format!("exec:{nonce}:{action}")
CallbackData(nonce, action) == ExecPrefix \o Colon \o nonce \o Colon \o action

\* the callback data the messaging surface can deliver: the buttons of any
\* request, pressed at any time, and data nobody published
Payloads ==
    {CallbackData(n, a) : n \in Nonces, a \in Actions}
        \cup {CallbackData(ForeignNonce, ActDeny),
              ExecPrefix \o Colon \o NonceStr(1),
              <<"h", "i">> \o Colon \o NonceStr(1) \o Colon \o ActDeny}

\* the buttons of the messages whose requests are pending in map, and
\* the same data with an action no button carries
PendingPayloads(map) == {CallbackData(n, a) : n \in DOMAIN map, a \in Actions}

\* str::splitn(n, ':'): at most n parts, the last one keeps the rest
RECURSIVE Splitn(_, _, _, _)
Splitn(s, n, cur, acc) ==
    IF s = <<>> THEN Append(acc, cur)
    ELSE IF Head(s) = ":" /\ Len(acc) + 1 < n
         THEN Splitn(Tail(s), n, <<>>, Append(acc, cur))
         ELSE Splitn(Tail(s), n, Append(cur, Head(s)), acc)

\* data.splitn(3, ':').collect(), for each callback data of the model
Parts == [data \in Payloads |-> Splitn(data, 3, <<>>, <<>>)]

WellFormedAnyPrefix(data) == Len(Parts[data]) = 3

\* parts.len() == 3 && parts[0] == "exec"
WellFormed(data) == Len(Parts[data]) = 3 /\ Parts[data][1] = ExecPrefix

NonceOf(data) == Parts[data][2]

ActionOf(data) == Parts[data][3]

\* the match on the action name; NoDecision stands for the unknown action
DecisionOf(action) ==
    IF action = ActAllowOnce THEN AllowOnce
    ELSE IF action = ActAllowAlways THEN AllowAlways(<<>>)
    ELSE IF action = ActDeny THEN Deny
    ELSE NoDecision

\* the text the message is edited to
DecisionText(d) ==
    CASE d.kind = "AllowOnce" -> "approved (once)"
      [] d.kind = "AllowAlways" -> "approved (always)"
      [] d.kind = "Deny" -> "denied"
      [] OTHER -> "auto-approved"

(* ------------------------------------------------------------------ *)
(* The pending map (HashMap<String, PendingApproval>)                   *)
(* ------------------------------------------------------------------ *)

EntryAny(map, nonce) ==
    IF DOMAIN map # {} THEN map[CHOOSE k \in DOMAIN map : TRUE] ELSE 0

\* map.get: the request whose sender the entry holds; 0 stands for None
Entry(map, nonce) == IF nonce \in DOMAIN map THEN map[nonce] ELSE 0

\* map.insert
Insert(map, nonce, owner) ==
    [k \in DOMAIN map \cup {nonce} |-> IF k = nonce THEN owner ELSE map[k]]

\* map.remove
Remove(map, nonce) == [k \in DOMAIN map \ {nonce} |-> map[k]]

expire_kept(map, nonce) == map

\* the timeout arm of request_approval: map.remove(&nonce)
expire(map, nonce) == Remove(map, nonce)

take_entry_kept(map, nonce) == map

take_entry_all(map, nonce) == [k \in {} |-> 0]

\* handle_callback: the map after map.remove(nonce)
take_entry(map, nonce) == Remove(map, nonce)

(* ------------------------------------------------------------------ *)
(* State                                                                *)
(* ------------------------------------------------------------------ *)

Reqs == 1..NumReqs

Handlers == 1..NumHandlers

\* the request_approval call of the agent
AgentReq == 1

\* the polling loop's handler
PollHandler == 1

VARIABLES
    pc,            \* where Agent::process stands: model, gate, approving, execute, done, off
    approver,      \* the approver the agent was built with: cli or telegram
    tool_rounds,   \* Agent::process: tool_rounds
    model_calls,   \* number of provider.complete calls made
    calls,         \* response.tool_calls of the current round
    idx,           \* position of the for loop over the calls (1-based)
    tool_results,  \* Agent::process: tool_results of the current round
    log,           \* per call of the round: what happened to it
    outcome,       \* what process returned: none, ok or the error
    messages,      \* Agent::process: messages
    rules,         \* table approval_rules
    rpc,           \* per request_approval call: idle, publish, register, waiting, timed_out, returned
    rcmd,          \* its command text
    rnonce,        \* its nonce
    rret,          \* what it returned
    chan,          \* its oneshot channel
    shown,         \* what its published message shows
    obtained,      \* how often a handler got its pending entry
    delivered,     \* how often a decision was put into its channel
    pending,       \* PendingApprovals.map
    lock,          \* who holds the Mutex of PendingApprovals.map: <<>> for nobody
    hpc,           \* per handle_callback call: idle, locked, unknown, edit, answer, send, returned
    hdata,         \* the callback data it was called with
    hnonce,        \* the nonce it parsed out of the callback data
    hentry,        \* the request whose entry it removed, 0 for none
    hdec,          \* the decision it is about to send
    hret,          \* <<b>> once it returned b, <<>> before
    hack,          \* the text of its answer_callback_query
    m_pattern,     \* matches_rule: pattern
    m_command,     \* matches_rule: command
    m_result,      \* <<b>> once matches_rule returned b, <<>> before
    db_op,         \* the last call on the rule store: its name, argument and return value
    e_command,     \* execute_command: command
    e_timeout,     \* execute_command: timeout_secs, <<>> for None
    e_wait_secs,   \* execute_command: timeout, <<>> before it is computed
    e_pc,          \* where execute_command stands: off, start, spawn, wait, returned
    e_result,      \* the text execute_command returned
    e_child        \* the sh -c child process: none, running, exited

agentVars == <<pc, approver, tool_rounds, model_calls, calls, idx, tool_results, log, outcome, messages>>

dbVars == <<rules>>

reqVars == <<rpc, rcmd, rnonce, rret, chan, shown, obtained, delivered>>

handlerVars == <<hpc, hdata, hnonce, hentry, hdec, hret, hack>>

matchVars == <<m_pattern, m_command, m_result>>

execVars == <<e_command, e_timeout, e_wait_secs, e_pc, e_result, e_child>>

\* the state of the components that run on their own
sideVars == <<matchVars, db_op, execVars>>

vars == <<agentVars, dbVars, reqVars, pending, lock, handlerVars, sideVars>>

\* Message::user_with_content; Message::user makes one of a text block
user_with_content(content) == [role |-> "user", content |-> content]

\* Message::assistant_with_content
assistant_with_content(content) == [role |-> "assistant", content |-> content]

\* tool_use_content(call)
tool_use_content(call) ==
    [type |-> "tool_use", id |-> call.id, name |-> call.name, input |-> call.input]

\* the messages of the rounds before the current one: process only ever
\* appends to messages and hands them to the provider, so of a message of
\* an earlier round the role is kept and the content is not
EarlierRounds(ms) ==
    [i \in 1..Len(ms) |-> [role |-> ms[i].role, content |-> <<>>]]

NoChan == [state |-> "none", value |-> NoDecision]

OpenChan == [state |-> "open", value |-> NoDecision]

\* the sender of request r is dropped without a value
DropSender(ch, r) ==
    IF r # 0 /\ ch[r].state = "open"
    THEN [ch EXCEPT ![r].state = "sender_dropped"]
    ELSE ch

InitShared ==
    /\ tool_rounds = 0
    /\ model_calls = 0
    /\ calls = <<>>
    /\ idx = 0
    /\ tool_results = <<>>
    /\ log = <<>>
    /\ outcome = "none"
    /\ messages = IF pc = "off"
                  THEN <<>>
                  ELSE <<user_with_content(<<[type |-> "text"]>>)>>
    /\ rules = <<>>
    /\ rpc = [r \in Reqs |-> "idle"]
    /\ rcmd = [r \in Reqs |-> <<>>]
    /\ rnonce = [r \in Reqs |-> <<>>]
    /\ rret = [r \in Reqs |-> NoRet]
    /\ chan = [r \in Reqs |-> NoChan]
    /\ shown = [r \in Reqs |-> "none"]
    /\ obtained = [r \in Reqs |-> 0]
    /\ delivered = [r \in Reqs |-> 0]
    /\ pending = <<>>
    /\ lock = <<>>
    /\ hpc = [h \in Handlers |-> "idle"]
    /\ hdata = [h \in Handlers |-> <<>>]
    /\ hnonce = [h \in Handlers |-> <<>>]
    /\ hentry = [h \in Handlers |-> 0]
    /\ hdec = [h \in Handlers |-> NoDecision]
    /\ hret = [h \in Handlers |-> <<>>]
    /\ hack = [h \in Handlers |-> "none"]

\* no call of matches_rule
NoMatch ==
    /\ m_pattern = <<>>
    /\ m_command = <<>>
    /\ m_result = <<>>

NoOp == [name |-> "none", arg |-> <<>>, ret |-> <<>>]

\* no call on the rule store
NoRuleOp == db_op = NoOp

\* no call of execute_command
NoExec ==
    /\ e_command = <<>>
    /\ e_timeout = <<>>
    /\ e_wait_secs = <<>>
    /\ e_pc = "off"
    /\ e_result = "none"
    /\ e_child = "none"

\* Agent::new followed by the start of process
Init ==
    /\ pc = "model"
    /\ approver \in {"cli", "telegram"}
    /\ InitShared
    /\ NoMatch
    /\ NoRuleOp
    /\ NoExec

(* ------------------------------------------------------------------ *)
(* TelegramApprover::request_approval                                   *)
(* ------------------------------------------------------------------ *)

\* the command text the approver works with
CommandText(call) ==
    IF call.input.valid THEN call.input.command ELSE UnknownCommand

\* request_approval up to the await of send_message_with_keyboard
BeginRequest(r, call, n) ==
    /\ rpc' = [rpc EXCEPT ![r] = "publish"]
    /\ rcmd' = [rcmd EXCEPT ![r] = CommandText(call)]
    /\ rnonce' = [rnonce EXCEPT ![r] = n]
    /\ rret' = [rret EXCEPT ![r] = NoRet]
    /\ chan' = [chan EXCEPT ![r] = NoChan]
    /\ shown' = [shown EXCEPT ![r] = "none"]
    /\ obtained' = [obtained EXCEPT ![r] = 0]
    /\ delivered' = [delivered EXCEPT ![r] = 0]

R_PublishRegistered(r) ==
    /\ lock' = lock
    /\ rpc[r] = "publish"
    /\ \/ /\ rpc' = [rpc EXCEPT ![r] = "register"]
          /\ shown' = [shown EXCEPT ![r] = "command"]
          /\ rret' = rret
          /\ pending' = pending
       \/ /\ rpc' = [rpc EXCEPT ![r] = "returned"]
          /\ rret' = [rret EXCEPT ![r] = RetErr("telegram error")]
          /\ shown' = shown
          /\ pending' = Insert(pending, rnonce[r], r)
    /\ UNCHANGED <<rcmd, rnonce, chan, obtained, delivered>>
    /\ UNCHANGED <<agentVars, dbVars, handlerVars>>

\* send_message_with_keyboard returns: the message id, or an error (the ? returns it)
R_Publish(r) ==
    /\ lock' = lock
    /\ rpc[r] = "publish"
    /\ \/ /\ rpc' = [rpc EXCEPT ![r] = "register"]
          /\ shown' = [shown EXCEPT ![r] = "command"]
          /\ rret' = rret
       \/ /\ rpc' = [rpc EXCEPT ![r] = "returned"]
          /\ rret' = [rret EXCEPT ![r] = RetErr("telegram error")]
          /\ shown' = shown
    /\ UNCHANGED <<rcmd, rnonce, chan, obtained, delivered>>
    /\ UNCHANGED <<agentVars, dbVars, pending, handlerVars>>

\* the Mutex of the map: nobody, a request_approval call or a
\* handle_callback call holds it
Free == <<>>

RequestHolds(r) == <<"request_approval", r>>

CallbackHolds(h) == <<"handle_callback", h>>

DropGuardKept(holder) == holder

\* the MutexGuard goes out of scope: at the end of the block around the
\* map operation, or with the return from the timeout arm
DropGuard(holder) == Free

\* self.pending.map.lock().await returns the guard: before the insert and
\* in the timeout arm
R_Lock(r) ==
    /\ rpc[r] \in {"register", "timed_out"}
    /\ lock = Free
    /\ lock' = RequestHolds(r)
    /\ UNCHANGED <<agentVars, dbVars, reqVars, pending, handlerVars>>

\* oneshot::channel() and map.insert under the lock; an entry that was
\* under the nonce is dropped, and its sender with it; the guard is dropped
\* at the end of the block
R_Register(r) ==
    /\ rpc[r] = "register"
    /\ lock = RequestHolds(r)
    /\ lock' = DropGuard(lock)
    /\ pending' = Insert(pending, rnonce[r], r)
    /\ chan' = [DropSender(chan, Entry(pending, rnonce[r])) EXCEPT ![r] = OpenChan]
    /\ rpc' = [rpc EXCEPT ![r] = "waiting"]
    /\ UNCHANGED <<rcmd, rnonce, rret, shown, obtained, delivered>>
    /\ UNCHANGED <<agentVars, dbVars, handlerVars>>

\* Ok(Ok(decision)): an allow-always gets its pattern from the command
R_Recv(r) ==
    /\ lock' = lock
    /\ rpc[r] = "waiting"
    /\ chan[r].state = "sent"
    /\ LET d == chan[r].value
           decision == IF d.kind = "AllowAlways"
                       THEN AllowAlways(generate_pattern(rcmd[r]))
                       ELSE d
       IN  rret' = [rret EXCEPT ![r] = RetOk(decision)]
    /\ rpc' = [rpc EXCEPT ![r] = "returned"]
    /\ chan' = [chan EXCEPT ![r].state = "closed"]
    /\ UNCHANGED <<rcmd, rnonce, shown, obtained, delivered>>
    /\ UNCHANGED <<agentVars, dbVars, pending, handlerVars>>

\* Ok(Err(_)): the sender was dropped
R_Dropped(r) ==
    /\ lock' = lock
    /\ rpc[r] = "waiting"
    /\ chan[r].state = "sender_dropped"
    /\ rret' = [rret EXCEPT ![r] = RetErr("approval timed out")]
    /\ rpc' = [rpc EXCEPT ![r] = "returned"]
    /\ chan' = [chan EXCEPT ![r].state = "closed"]
    /\ UNCHANGED <<rcmd, rnonce, shown, obtained, delivered>>
    /\ UNCHANGED <<agentVars, dbVars, pending, handlerVars>>

R_TimeoutNever(r) ==
    /\ rpc[r] = "waiting"
    /\ FALSE
    /\ UNCHANGED vars

\* Err(_): the timer elapsed with the channel still empty; the await is
\* over and the receiver gone, the lock is awaited next
R_Timeout(r) ==
    /\ lock' = lock
    /\ rpc[r] = "waiting"
    /\ chan[r].state = "open"
    /\ rpc' = [rpc EXCEPT ![r] = "timed_out"]
    /\ chan' = [chan EXCEPT ![r].state = "closed"]
    /\ UNCHANGED <<rcmd, rnonce, rret, shown, obtained, delivered>>
    /\ UNCHANGED <<agentVars, dbVars, pending, handlerVars>>

\* the timeout arm: map.remove(&nonce) under the lock, Err(ApprovalTimeout)
R_Expire(r) ==
    /\ rpc[r] = "timed_out"
    /\ lock = RequestHolds(r)
    /\ lock' = DropGuard(lock)
    /\ pending' = expire(pending, rnonce[r])
    /\ chan' = IF Entry(pending, rnonce[r]) # r /\ Entry(pending', rnonce[r]) = 0
               THEN DropSender(chan, Entry(pending, rnonce[r]))
               ELSE chan
    /\ rret' = [rret EXCEPT ![r] = RetErr("approval timed out")]
    /\ rpc' = [rpc EXCEPT ![r] = "returned"]
    /\ UNCHANGED <<rcmd, rnonce, shown, obtained, delivered>>
    /\ UNCHANGED <<agentVars, dbVars, handlerVars>>

(* ------------------------------------------------------------------ *)
(* TelegramApprover::handle_callback                                    *)
(* ------------------------------------------------------------------ *)

\* handle_callback returns b to its caller
Return(h, b) ==
    /\ hret' = [hret EXCEPT ![h] = <<b>>]
    /\ hpc' = [hpc EXCEPT ![h] = "returned"]

\* data that is not exec:{nonce}:{action}: return false
H_Malformed(h, data) ==
    /\ lock' = lock
    /\ hpc[h] = "idle"
    /\ ~WellFormed(data)
    /\ hdata' = [hdata EXCEPT ![h] = data]
    /\ Return(h, FALSE)
    /\ UNCHANGED <<hnonce, hentry, hdec, hack>>
    /\ UNCHANGED <<agentVars, dbVars, reqVars, pending>>

\* exec:{nonce}:{action} is parsed and map.lock().await returns the guard
H_Lock(h, data) ==
    /\ hpc[h] = "idle"
    /\ WellFormed(data)
    /\ lock = Free
    /\ lock' = CallbackHolds(h)
    /\ hpc' = [hpc EXCEPT ![h] = "locked"]
    /\ hdata' = [hdata EXCEPT ![h] = data]
    /\ hnonce' = [hnonce EXCEPT ![h] = NonceOf(data)]
    /\ hdec' = [hdec EXCEPT ![h] = DecisionOf(ActionOf(data))]
    /\ UNCHANGED <<hentry, hret, hack>>
    /\ UNCHANGED <<agentVars, dbVars, reqVars, pending>>

\* map.remove(nonce), and the guard is dropped at the end of the block.
\* Without an entry (the stale button press): answer "expired" and return
\* true.  With one: the match on the action name
H_Take(h) ==
    /\ hpc[h] = "locked"
    /\ lock = CallbackHolds(h)
    /\ lock' = DropGuard(lock)
    /\ LET nonce == hnonce[h]
           owner == Entry(pending, nonce)
       IN  /\ pending' = take_entry(pending, nonce)
           /\ hentry' = [hentry EXCEPT ![h] = owner]
           /\ IF owner = 0
              THEN /\ hack' = [hack EXCEPT ![h] = "this approval request has expired"]
                   /\ Return(h, TRUE)
                   /\ obtained' = obtained
              ELSE /\ hpc' = [hpc EXCEPT ![h] = IF hdec[h] = NoDecision THEN "unknown" ELSE "edit"]
                   /\ obtained' = [obtained EXCEPT ![owner] = @ + 1]
                   /\ UNCHANGED <<hret, hack>>
    /\ UNCHANGED <<hdata, hnonce, hdec>>
    /\ UNCHANGED <<rpc, rcmd, rnonce, rret, chan, shown, delivered>>
    /\ UNCHANGED <<agentVars, dbVars>>

\* the unknown action: answer "unknown action", return true; the removed
\* entry goes out of scope and its sender is dropped
H_Unknown(h) ==
    /\ lock' = lock
    /\ hpc[h] = "unknown"
    /\ hack' = [hack EXCEPT ![h] = "unknown action"]
    /\ Return(h, TRUE)
    /\ chan' = DropSender(chan, hentry[h])
    /\ UNCHANGED <<hdata, hnonce, hentry, hdec>>
    /\ UNCHANGED <<rpc, rcmd, rnonce, rret, shown, obtained, delivered>>
    /\ UNCHANGED <<agentVars, dbVars, pending>>

\* edit_message_text, whose failure is ignored
H_Edit(h) ==
    /\ lock' = lock
    /\ hpc[h] = "edit"
    /\ \/ shown' = [shown EXCEPT ![hentry[h]] = DecisionText(hdec[h])]
       \/ shown' = shown
    /\ hpc' = [hpc EXCEPT ![h] = "answer"]
    /\ UNCHANGED <<rpc, rcmd, rnonce, rret, chan, obtained, delivered>>
    /\ UNCHANGED <<hdata, hnonce, hentry, hdec, hret, hack>>
    /\ UNCHANGED <<agentVars, dbVars, pending>>

\* answer_callback_query without a text
H_Answer(h) ==
    /\ lock' = lock
    /\ hpc[h] = "answer"
    /\ hack' = [hack EXCEPT ![h] = ""]
    /\ hpc' = [hpc EXCEPT ![h] = "send"]
    /\ UNCHANGED <<hdata, hnonce, hentry, hdec, hret>>
    /\ UNCHANGED <<agentVars, dbVars, reqVars, pending>>

\* approval.sender.send(decision), whose failure is ignored; return true
H_Send(h) ==
    /\ lock' = lock
    /\ hpc[h] = "send"
    /\ IF chan[hentry[h]].state = "open"
       THEN /\ chan' = [chan EXCEPT ![hentry[h]] = [state |-> "sent", value |-> hdec[h]]]
            /\ delivered' = [delivered EXCEPT ![hentry[h]] = @ + 1]
       ELSE UNCHANGED <<chan, delivered>>
    /\ Return(h, TRUE)
    /\ UNCHANGED <<hdata, hnonce, hentry, hdec, hack>>
    /\ UNCHANGED <<rpc, rcmd, rnonce, rret, shown, obtained>>
    /\ UNCHANGED <<agentVars, dbVars, pending>>

\* the caller has the return value; the call and its locals are gone
H_Return(h) ==
    /\ lock' = lock
    /\ hpc[h] = "returned"
    /\ hpc' = [hpc EXCEPT ![h] = "idle"]
    /\ hdata' = [hdata EXCEPT ![h] = <<>>]
    /\ hnonce' = [hnonce EXCEPT ![h] = <<>>]
    /\ hentry' = [hentry EXCEPT ![h] = 0]
    /\ hdec' = [hdec EXCEPT ![h] = NoDecision]
    /\ hret' = [hret EXCEPT ![h] = <<>>]
    /\ hack' = [hack EXCEPT ![h] = "none"]
    /\ UNCHANGED <<agentVars, dbVars, reqVars, pending>>

\* no handle_callback call is between its return and its caller: a return
\* is no suspension point, so no other task runs in between
Settled == \A h \in Handlers : hpc[h] # "returned"

(* ------------------------------------------------------------------ *)
(* Agent::process                                                       *)
(* ------------------------------------------------------------------ *)

RefuseRoundAfterLoop ==
    /\ pc' = "gate"
    /\ outcome' = "tool loop exceeded"
    /\ idx' = 1

\* return Err("tool loop exceeded"), ahead of the loop over the calls
RefuseRound ==
    /\ pc' = "done"
    /\ outcome' = "tool loop exceeded"
    /\ idx' = 0

\* provider.complete returns; the round counter; the assistant message
\* with one tool-use block per call (a text block of the response, which
\* may stand before them, is not kept)
A_Complete(responses) ==
    /\ lock' = lock
    /\ pc = "model"
    /\ model_calls' = model_calls + 1
    /\ \/ /\ pc' = "done"
          /\ outcome' = "provider error"
          /\ UNCHANGED <<tool_rounds, calls, idx, tool_results, log, messages>>
       \/ /\ pc' = "done"
          /\ outcome' = "ok"
          /\ UNCHANGED <<tool_rounds, calls, idx, tool_results, log, messages>>
       \/ \E cs \in responses :
            /\ tool_rounds' = tool_rounds + 1
            /\ calls' = WithIds(cs)
            /\ tool_results' = <<>>
            /\ log' = [i \in 1..Len(cs) |-> NewLog]
            /\ IF RoundLimitExceeded(tool_rounds')
               THEN RefuseRound /\ messages' = messages
               ELSE /\ pc' = "gate"
                    /\ outcome' = outcome
                    /\ idx' = 1
                    /\ messages' = Append(EarlierRounds(messages),
                            assistant_with_content(
                                [i \in 1..Len(cs) |-> tool_use_content(calls'[i])]))
    /\ UNCHANGED <<approver, dbVars, reqVars, pending, handlerVars>>

CliApproverDenies(tool_call) == RetOk(Deny)

\* CliApprover::request_approval
CliApprover(tool_call) == RetOk(AutoApproved)

\* handle_tool_call_with_approval up to the call of request_approval
A_Gate ==
    /\ lock' = lock
    /\ pc = "gate"
    /\ IF requires_approval(calls[idx])
       THEN /\ pc' = "approving"
            /\ log' = [log EXCEPT ![idx].approvals = @ + 1]
            /\ IF approver = "cli"
               THEN /\ rpc' = [rpc EXCEPT ![AgentReq] = "returned"]
                    /\ rret' = [rret EXCEPT ![AgentReq] = CliApprover(calls[idx])]
                    /\ UNCHANGED <<rcmd, rnonce, chan, shown, obtained, delivered>>
               ELSE \E n \in AgentNonces : BeginRequest(AgentReq, calls[idx], n)
       ELSE /\ pc' = "execute"
            /\ UNCHANGED <<log, reqVars>>
    /\ UNCHANGED <<approver, tool_rounds, model_calls, calls, idx, tool_results, outcome, messages>>
    /\ UNCHANGED <<dbVars, pending, handlerVars>>

AdvancePushEach(result) ==
    /\ tool_results' = Append(tool_results, result)
    /\ messages' = Append(messages, user_with_content(<<result>>))
    /\ IF idx = Len(calls)
       THEN pc' = "model" /\ idx' = idx
       ELSE pc' = "gate" /\ idx' = idx + 1
    /\ outcome' = outcome

\* tool_results.push(result); after the last call the user message with
\* the results of the round is pushed
Advance(result) ==
    /\ tool_results' = Append(tool_results, result)
    /\ IF idx = Len(calls)
       THEN /\ pc' = "model"
            /\ idx' = idx
            /\ messages' = Append(messages, user_with_content(tool_results'))
       ELSE /\ pc' = "gate"
            /\ idx' = idx + 1
            /\ messages' = messages
    /\ outcome' = outcome

\* the ? that ends process with an error
Fail(e) ==
    /\ pc' = "done"
    /\ outcome' = e
    /\ UNCHANGED <<idx, tool_results, messages>>

\* request_approval returned: the ? and the match on the decision
A_Decision ==
    /\ lock' = lock
    /\ pc = "approving"
    /\ rpc[AgentReq] = "returned"
    /\ rpc' = [rpc EXCEPT ![AgentReq] = "idle"]
    /\ rret' = [rret EXCEPT ![AgentReq] = NoRet]
    /\ rcmd' = [rcmd EXCEPT ![AgentReq] = <<>>]
    /\ rnonce' = [rnonce EXCEPT ![AgentReq] = <<>>]
    /\ LET ret == rret[AgentReq]
           d == ret.decision
       IN  IF ~ret.ok
           THEN Fail(ret.err) /\ UNCHANGED <<log, rules>>
           ELSE /\ log' = [log EXCEPT ![idx].decisions = Append(@, d)]
                /\ IF ~Proceeds(d)
                   THEN Advance(DeniedResult(calls[idx])) /\ rules' = rules
                   ELSE IF d.kind = "AllowAlways"
                        THEN \/ /\ rules' = save_approval_rule(rules, d.pattern)
                                /\ pc' = "execute"
                                /\ UNCHANGED <<idx, tool_results, outcome, messages>>
                             \/ Fail("database error") /\ rules' = rules
                        ELSE /\ pc' = "execute"
                             /\ UNCHANGED <<idx, tool_results, outcome, messages, rules>>
    /\ UNCHANGED <<approver, tool_rounds, model_calls, calls>>
    /\ UNCHANGED <<chan, shown, obtained, delivered, pending, handlerVars>>

\* execute_command: the safety filter, then sh -c
ExecuteCommand(command) ==
    IF check_safety_filter(command) # NoReason
    THEN /\ log' = [log EXCEPT ![idx].executed = TRUE]
         /\ Advance(tool_result(calls[idx].id, check_safety_filter(command)))
    ELSE \E o \in SpawnOutcomes :
            /\ log' = [log EXCEPT ![idx].executed = TRUE, ![idx].spawned = TRUE]
            /\ Advance(tool_result(calls[idx].id, o))

\* tool::handle_tool_call; the rows of the facts table are not modelled,
\* and of web_search and web_fetch only that they return a text
A_Execute ==
    /\ lock' = lock
    /\ pc = "execute"
    /\ LET call == calls[idx]
           Reply(text) ==
               /\ log' = [log EXCEPT ![idx].executed = TRUE]
               /\ Advance(tool_result(call.id, text))
       IN  \/ /\ call.name = REMEMBER_FACT_TOOL_NAME
              /\ IF call.input.valid
                 THEN \/ Reply("ok")
                      \/ /\ log' = [log EXCEPT ![idx].executed = TRUE]
                         /\ Fail("database error")
                 ELSE Reply(<<"invalid input: ", "err">>)
           \/ /\ call.name = EXEC_TOOL_NAME
              /\ IF call.input.valid
                 THEN ExecuteCommand(call.input.command)
                 ELSE Reply(<<"invalid input: ", "err">>)
           \/ /\ call.name \in {WEB_SEARCH_TOOL_NAME, WEB_FETCH_TOOL_NAME}
              /\ IF call.input.valid
                 THEN Reply(<<"output of ", call.name>>)
                 ELSE Reply(<<"invalid input: ", "err">>)
           \/ /\ call.name \notin {REMEMBER_FACT_TOOL_NAME, EXEC_TOOL_NAME,
                                   WEB_SEARCH_TOOL_NAME, WEB_FETCH_TOOL_NAME}
              /\ Reply(<<"unknown tool: ", call.name>>)
    /\ UNCHANGED <<approver, tool_rounds, model_calls, calls, rules>>
    /\ UNCHANGED <<reqVars, pending, handlerVars>>

(* ------------------------------------------------------------------ *)
(* Specifications                                                       *)
(* ------------------------------------------------------------------ *)

\* one conversation: the agent, its approver, and the polling loop's
\* handler on the buttons of the pending request
Next ==
    \/ Settled /\ A_Complete(ToolCallSeqs) /\ UNCHANGED sideVars
    \/ Settled /\ A_Gate /\ UNCHANGED sideVars
    \/ Settled /\ A_Decision /\ UNCHANGED sideVars
    \/ Settled /\ A_Execute /\ UNCHANGED sideVars
    \/ Settled /\ R_Publish(AgentReq) /\ UNCHANGED sideVars
    \/ Settled /\ R_Lock(AgentReq) /\ UNCHANGED sideVars
    \/ Settled /\ R_Register(AgentReq) /\ UNCHANGED sideVars
    \/ Settled /\ R_Recv(AgentReq) /\ UNCHANGED sideVars
    \/ Settled /\ R_Dropped(AgentReq) /\ UNCHANGED sideVars
    \/ Settled /\ R_Timeout(AgentReq) /\ UNCHANGED sideVars
    \/ Settled /\ R_Expire(AgentReq) /\ UNCHANGED sideVars
    \/ Settled /\ (\E data \in PendingPayloads(pending) : H_Lock(PollHandler, data)) /\ UNCHANGED sideVars
    \/ Settled /\ H_Take(PollHandler) /\ UNCHANGED sideVars
    \/ Settled /\ H_Unknown(PollHandler) /\ UNCHANGED sideVars
    \/ Settled /\ H_Edit(PollHandler) /\ UNCHANGED sideVars
    \/ Settled /\ H_Answer(PollHandler) /\ UNCHANGED sideVars
    \/ Settled /\ H_Send(PollHandler) /\ UNCHANGED sideVars
    \/ H_Return(PollHandler) /\ UNCHANGED sideVars

Spec == Init /\ [][Next]_vars

\* one conversation whose model calls every tool
NextTools ==
    \/ Settled /\ A_Complete(AllToolsSeqs) /\ UNCHANGED sideVars
    \/ Settled /\ A_Gate /\ UNCHANGED sideVars
    \/ Settled /\ A_Decision /\ UNCHANGED sideVars
    \/ Settled /\ A_Execute /\ UNCHANGED sideVars
    \/ Settled /\ R_Publish(AgentReq) /\ UNCHANGED sideVars
    \/ Settled /\ R_Lock(AgentReq) /\ UNCHANGED sideVars
    \/ Settled /\ R_Register(AgentReq) /\ UNCHANGED sideVars
    \/ Settled /\ R_Recv(AgentReq) /\ UNCHANGED sideVars
    \/ Settled /\ R_Dropped(AgentReq) /\ UNCHANGED sideVars
    \/ Settled /\ R_Timeout(AgentReq) /\ UNCHANGED sideVars
    \/ Settled /\ R_Expire(AgentReq) /\ UNCHANGED sideVars
    \/ Settled /\ (\E data \in PendingPayloads(pending) : H_Lock(PollHandler, data)) /\ UNCHANGED sideVars
    \/ Settled /\ H_Take(PollHandler) /\ UNCHANGED sideVars
    \/ Settled /\ H_Unknown(PollHandler) /\ UNCHANGED sideVars
    \/ Settled /\ H_Edit(PollHandler) /\ UNCHANGED sideVars
    \/ Settled /\ H_Answer(PollHandler) /\ UNCHANGED sideVars
    \/ Settled /\ H_Send(PollHandler) /\ UNCHANGED sideVars
    \/ H_Return(PollHandler) /\ UNCHANGED sideVars

SpecTools == Init /\ [][NextTools]_vars

\* the commands of the concurrent request_approval calls of SpecApprover
ReqCalls == {[id |-> CallId(1), name |-> EXEC_TOOL_NAME,
              input |-> [valid |-> TRUE, command |-> c]] : c \in {CmdCargo, CmdEnv}}

\* the first call is for either command, the later ones for the plain one
ReqCallsOf(r) == IF r = 1 THEN ReqCalls ELSE {c \in ReqCalls : c.input.command = CmdCargo}

\* the values of rand_u32 are interchangeable: call r draws one of the
\* values of the calls before it or the next unused one
NoncesOf(r) == {NonceStr(v) : v \in 1..(IF r < NumNonces THEN r ELSE NumNonces)}

\* no agent loop: request_approval calls of concurrent conversations
InitApprover ==
    /\ pc = "off"
    /\ approver = "telegram"
    /\ InitShared
    /\ NoMatch
    /\ NoRuleOp
    /\ NoExec

\* a conversation calls request_approval; the calls are numbered in the
\* order in which they start
R_Start(r) ==
    /\ lock' = lock
    /\ pc = "off"
    /\ rpc[r] = "idle"
    /\ \A q \in Reqs : q < r => rpc[q] # "idle"
    /\ \E call \in ReqCallsOf(r) : \E n \in NoncesOf(r) : BeginRequest(r, call, n)
    /\ UNCHANGED <<agentVars, dbVars, pending, handlerVars>>

\* one request_approval call and concurrent handle_callback calls on any
\* callback data
NextApprover ==
    \/ Settled /\ R_Start(AgentReq) /\ UNCHANGED sideVars
    \/ Settled /\ R_Publish(AgentReq) /\ UNCHANGED sideVars
    \/ Settled /\ R_Lock(AgentReq) /\ UNCHANGED sideVars
    \/ Settled /\ R_Register(AgentReq) /\ UNCHANGED sideVars
    \/ Settled /\ R_Recv(AgentReq) /\ UNCHANGED sideVars
    \/ Settled /\ R_Dropped(AgentReq) /\ UNCHANGED sideVars
    \/ Settled /\ R_Timeout(AgentReq) /\ UNCHANGED sideVars
    \/ Settled /\ R_Expire(AgentReq) /\ UNCHANGED sideVars
    \/ Settled /\ (\E h \in Handlers : \E data \in Payloads : H_Malformed(h, data)) /\ UNCHANGED sideVars
    \/ Settled /\ (\E h \in Handlers : \E data \in Payloads : H_Lock(h, data)) /\ UNCHANGED sideVars
    \/ Settled /\ (\E h \in Handlers : H_Take(h)) /\ UNCHANGED sideVars
    \/ Settled /\ (\E h \in Handlers : H_Unknown(h)) /\ UNCHANGED sideVars
    \/ Settled /\ (\E h \in Handlers : H_Edit(h)) /\ UNCHANGED sideVars
    \/ Settled /\ (\E h \in Handlers : H_Answer(h)) /\ UNCHANGED sideVars
    \/ Settled /\ (\E h \in Handlers : H_Send(h)) /\ UNCHANGED sideVars
    \/ (\E h \in Handlers : H_Return(h)) /\ UNCHANGED sideVars

SpecApprover == InitApprover /\ [][NextApprover]_vars

\* the runtime polls every task that is ready: the request_approval call
\* takes each of its steps, the timer of tokio::time::timeout elapses when
\* no reply came, the FIFO Mutex hands the lock to every waiter, and a
\* handle_callback call that holds the lock goes on to its map.remove
FairApprover ==
    /\ SF_vars(Settled /\ R_Lock(AgentReq) /\ UNCHANGED sideVars)
    /\ SF_vars(Settled /\ R_Register(AgentReq) /\ UNCHANGED sideVars)
    /\ SF_vars(Settled /\ R_Recv(AgentReq) /\ UNCHANGED sideVars)
    /\ SF_vars(Settled /\ R_Dropped(AgentReq) /\ UNCHANGED sideVars)
    /\ SF_vars(Settled /\ R_Timeout(AgentReq) /\ UNCHANGED sideVars)
    /\ SF_vars(Settled /\ R_Expire(AgentReq) /\ UNCHANGED sideVars)
    /\ SF_vars(Settled /\ (\E h \in Handlers : H_Take(h)) /\ UNCHANGED sideVars)
    /\ WF_vars((\E h \in Handlers : H_Return(h)) /\ UNCHANGED sideVars)

SpecApproverFair == SpecApprover /\ FairApprover

\* concurrent request_approval calls of several conversations, and the
\* polling loop's handler on any callback data
NextRequests ==
    \/ Settled /\ (\E r \in Reqs : R_Start(r)) /\ UNCHANGED sideVars
    \/ Settled /\ (\E r \in Reqs : R_Publish(r)) /\ UNCHANGED sideVars
    \/ Settled /\ (\E r \in Reqs : R_Lock(r)) /\ UNCHANGED sideVars
    \/ Settled /\ (\E r \in Reqs : R_Register(r)) /\ UNCHANGED sideVars
    \/ Settled /\ (\E r \in Reqs : R_Recv(r)) /\ UNCHANGED sideVars
    \/ Settled /\ (\E r \in Reqs : R_Dropped(r)) /\ UNCHANGED sideVars
    \/ Settled /\ (\E r \in Reqs : R_Timeout(r)) /\ UNCHANGED sideVars
    \/ Settled /\ (\E r \in Reqs : R_Expire(r)) /\ UNCHANGED sideVars
    \/ Settled /\ (\E data \in Payloads : H_Malformed(PollHandler, data)) /\ UNCHANGED sideVars
    \/ Settled /\ (\E data \in Payloads : H_Lock(PollHandler, data)) /\ UNCHANGED sideVars
    \/ Settled /\ H_Take(PollHandler) /\ UNCHANGED sideVars
    \/ Settled /\ H_Unknown(PollHandler) /\ UNCHANGED sideVars
    \/ Settled /\ H_Edit(PollHandler) /\ UNCHANGED sideVars
    \/ Settled /\ H_Answer(PollHandler) /\ UNCHANGED sideVars
    \/ Settled /\ H_Send(PollHandler) /\ UNCHANGED sideVars
    \/ H_Return(PollHandler) /\ UNCHANGED sideVars

SpecRequests == InitApprover /\ [][NextRequests]_vars

\* concurrent request_approval calls that nobody answers
NextUnanswered ==
    \/ (\E r \in Reqs : R_Start(r)) /\ UNCHANGED sideVars
    \/ (\E r \in Reqs : R_Publish(r)) /\ UNCHANGED sideVars
    \/ (\E r \in Reqs : R_Lock(r)) /\ UNCHANGED sideVars
    \/ (\E r \in Reqs : R_Register(r)) /\ UNCHANGED sideVars
    \/ (\E r \in Reqs : R_Dropped(r)) /\ UNCHANGED sideVars
    \/ (\E r \in Reqs : R_Timeout(r)) /\ UNCHANGED sideVars
    \/ (\E r \in Reqs : R_Expire(r)) /\ UNCHANGED sideVars

SpecUnanswered == InitApprover /\ [][NextUnanswered]_vars

(* ------------------------------------------------------------------ *)
(* The pattern matcher on its own                                       *)
(* ------------------------------------------------------------------ *)

\* the pieces patterns are made of
PatternPieces == {<<"a">>, <<"b">>, <<"*">>}

\* the pieces commands are made of
CommandPieces == {<<"a">>, <<"b">>, <<";">>, <<"&", "&">>}

\* the pieces with one space between them
RECURSIVE JoinPieces(_)
JoinPieces(ps) ==
    IF ps = <<>> THEN <<>>
    ELSE IF Len(ps) = 1 THEN ps[1]
    ELSE ps[1] \o <<" ">> \o JoinPieces(Tail(ps))

MatchPatterns ==
    {JoinPieces(ps) : ps \in UNION {[1..n -> PatternPieces] : n \in 0..MaxTokens}}

MatchCommands ==
    {JoinPieces(ps) : ps \in UNION {[1..n -> CommandPieces] : n \in 0..MaxTokens}}

\* a caller is about to call matches_rule(pattern, command)
InitMatcher ==
    /\ pc = "off"
    /\ approver = "cli"
    /\ InitShared
    /\ m_pattern \in MatchPatterns
    /\ m_command \in MatchCommands
    /\ m_result = <<>>
    /\ NoRuleOp
    /\ NoExec

\* matches_rule returns
M_Match ==
    /\ lock' = lock
    /\ m_result = <<>>
    /\ m_result' = <<matches_rule(m_pattern, m_command)>>
    /\ UNCHANGED <<m_pattern, m_command, db_op, execVars>>
    /\ UNCHANGED <<agentVars, dbVars, reqVars, pending, handlerVars>>

NextMatcher == M_Match

SpecMatcher == InitMatcher /\ [][NextMatcher]_vars

(* ------------------------------------------------------------------ *)
(* The rule store on its own                                            *)
(* ------------------------------------------------------------------ *)

\* the patterns saved and the commands looked up
StorePatterns ==
    {JoinPieces(<<<<"a">>, <<"*">>>>), JoinPieces(<<<<"a">>, <<"b">>>>),
     JoinPieces(<<<<"b">>, <<"*">>>>)}

StoreCommands ==
    {JoinPieces(<<<<"a">>, <<"b">>>>), JoinPieces(<<<<"b">>>>),
     JoinPieces(<<<<"a">>, <<";">>, <<"b">>>>), JoinPieces(<<<<"c">>>>)}

\* Database::open_in_memory: no rule yet
InitRules ==
    /\ pc = "off"
    /\ approver = "cli"
    /\ InitShared
    /\ NoMatch
    /\ NoRuleOp
    /\ NoExec

RuleOp(name, arg, ret) ==
    /\ db_op' = [name |-> name, arg |-> arg, ret |-> ret]
    /\ UNCHANGED <<agentVars, reqVars, pending, lock, handlerVars, matchVars, execVars>>

\* db.save_approval_rule(pattern): Ok(()), or the error of conn.execute
S_Save(pattern) ==
    /\ PatternConflict(rules, pattern) \/ MaxRuleId(rules) < MaxRuleIds
    /\ \/ /\ rules' = save_approval_rule(rules, pattern)
          /\ RuleOp("save_approval_rule", pattern, "ok")
       \/ /\ rules' = rules
          /\ RuleOp("save_approval_rule", pattern, "error")

\* db.delete_approval_rule(id): Ok(rows > 0)
S_Delete(id) ==
    /\ rules' = delete_approval_rule(rules, id)
    /\ RuleOp("delete_approval_rule", id, Len(rules') < Len(rules))

\* db.find_matching_rule(command)
S_Find(command) ==
    /\ rules' = rules
    /\ RuleOp("find_matching_rule", command, find_matching_rule(rules, command))

NextRules ==
    \/ \E pattern \in StorePatterns : S_Save(pattern)
    \/ \E id \in 1..MaxRuleIds : S_Delete(id)
    \/ \E command \in StoreCommands : S_Find(command)

SpecRules == InitRules /\ [][NextRules]_vars

(* ------------------------------------------------------------------ *)
(* execute_command on its own                                           *)
(* ------------------------------------------------------------------ *)

DEFAULT_TIMEOUT_SECS == 30

MAX_TIMEOUT_SECS == 300

CmdForkBomb == <<":", "(", ")", "{", " ", ":", "|", ":", "&", " ", "}", ";", ":">>

CmdLs == <<"l", "s", " ", "-", "l", "a">>

CmdMkfs == <<"m", "k", "f", "s", ".", "e", "x", "t", "4">>

CmdRmNoForce == <<"r", "m", " ", "-", "r", " ", "/">>

\* the commands execute_command is called with: a core, with something
\* before and after it
ExecCommands ==
    {before \o core \o after :
        before \in {<<>>, <<" ">>, <<"s", "u", "d", "o", " ">>},
        core \in {CmdRm, CmdForkBomb, CmdLs, CmdMkfs, CmdRmNoForce, CmdCargo, CmdEnv},
        after \in {<<>>, <<" ">>, <<"*">>}}

ExecTimeouts == {<<>>, <<0>>, <<1>>, <<300>>, <<301>>, <<1000>>}

EffectiveTimeoutUnclamped(timeout_secs) ==
    IF timeout_secs = <<>> THEN DEFAULT_TIMEOUT_SECS ELSE timeout_secs[1]

\* timeout_secs.unwrap_or(DEFAULT_TIMEOUT_SECS).min(MAX_TIMEOUT_SECS)
EffectiveTimeout(timeout_secs) ==
    LET t == IF timeout_secs = <<>> THEN DEFAULT_TIMEOUT_SECS ELSE timeout_secs[1]
    IN  IF t < MAX_TIMEOUT_SECS THEN t ELSE MAX_TIMEOUT_SECS

\* a caller is about to call execute_command(command, timeout_secs)
InitExec ==
    /\ pc = "off"
    /\ approver = "cli"
    /\ InitShared
    /\ NoMatch
    /\ NoRuleOp
    /\ e_command \in ExecCommands
    /\ e_timeout \in ExecTimeouts
    /\ e_wait_secs = <<>>
    /\ e_pc = "start"
    /\ e_result = "none"
    /\ e_child = "none"

ExecStep ==
    /\ UNCHANGED <<e_command, e_timeout>>
    /\ UNCHANGED <<agentVars, dbVars, reqVars, pending, lock, handlerVars, matchVars, db_op>>

\* the safety filter: a blocked command returns the reason; for any other
\* the timeout is computed
E_Filter ==
    /\ e_pc = "start"
    /\ IF check_safety_filter(e_command) # NoReason
       THEN /\ e_pc' = "returned"
            /\ e_result' = check_safety_filter(e_command)
            /\ e_wait_secs' = e_wait_secs
       ELSE /\ e_pc' = "spawn"
            /\ e_result' = e_result
            /\ e_wait_secs' = <<EffectiveTimeout(e_timeout)>>
    /\ e_child' = e_child
    /\ ExecStep

\* Command::new("sh").arg("-c").arg(command).output(): the child is
\* spawned, or the spawn fails
E_Spawn ==
    /\ e_pc = "spawn"
    /\ \/ e_pc' = "wait" /\ e_child' = "running" /\ e_result' = e_result
       \/ /\ e_pc' = "returned"
          /\ e_child' = e_child
          /\ e_result' = <<"failed to execute command: ", "err">>
    /\ e_wait_secs' = e_wait_secs
    /\ ExecStep

\* the child process ends by itself
E_ChildExit ==
    /\ e_child = "running"
    /\ e_child' = "exited"
    /\ UNCHANGED <<e_pc, e_result, e_wait_secs>>
    /\ ExecStep

\* Ok(Ok(output)), or Ok(Err(e)) of reading the output
E_Output ==
    /\ e_pc = "wait"
    /\ e_child = "exited"
    /\ e_pc' = "returned"
    /\ e_child' = e_child
    /\ \/ e_result' = <<"exit code: ", "code">>
       \/ e_result' = <<"failed to execute command: ", "err">>
    /\ e_wait_secs' = e_wait_secs
    /\ ExecStep

\* Err(_): the timer elapsed first; the future of output() is dropped, and
\* the Command was not built with kill_on_drop, so the child runs on
E_Timeout ==
    /\ e_pc = "wait"
    /\ e_child = "running"
    /\ e_pc' = "returned"
    /\ e_child' = e_child
    /\ e_result' = <<"command timed out after ", e_wait_secs[1], "s">>
    /\ e_wait_secs' = e_wait_secs
    /\ ExecStep

NextExec ==
    \/ E_Filter
    \/ E_Spawn
    \/ E_ChildExit
    \/ E_Output
    \/ E_Timeout

SpecExec == InitExec /\ [][NextExec]_vars

(* ------------------------------------------------------------------ *)
(* Properties of the agent loop (Spec)                                  *)
(* ------------------------------------------------------------------ *)

\* C1: an exec tool call reaches the tool executor (handle_tool_call is
\* about to be called for it, or has been) only after request_approval was
\* called once for it and returned exactly one decision, and that decision
\* is AllowOnce, AllowAlways or AutoApproved.
ExecOnlyAfterOneAllowingDecision ==
    \A i \in DOMAIN log :
        (calls[i].name = EXEC_TOOL_NAME
            /\ (log[i].executed \/ (pc = "execute" /\ idx = i)))
        => /\ log[i].approvals = 1
           /\ Len(log[i].decisions) = 1
           /\ log[i].decisions[1].kind \in {"AllowOnce", "AllowAlways", "AutoApproved"}

\* an exec call was executed after the interactive approver said allow-once
ExecAfterAllowOnce ==
    /\ approver = "telegram"
    /\ \E i \in DOMAIN log :
          /\ calls[i].name = EXEC_TOOL_NAME
          /\ log[i].executed
          /\ log[i].decisions = <<AllowOnce>>

\* C2: when request_approval returned Deny for a call, the tool executor is
\* never invoked for it (neither about to be, nor done, nor a process
\* spawned), and the call's tool result is "command denied by user" with
\* the call's own id.
DeniedNeverExecuted ==
    \A i \in DOMAIN log :
        (\E k \in 1..Len(log[i].decisions) : log[i].decisions[k].kind = "Deny")
        => /\ ~log[i].executed
           /\ ~log[i].spawned
           /\ ~(pc = "execute" /\ idx = i)
           /\ Len(tool_results) >= i
           /\ tool_results[i] = [tool_use_id |-> calls[i].id,
                                 content |-> "command denied by user"]

\* a call was denied and its result pushed
DeniedCallAnswered ==
    \E i \in DOMAIN log :
        /\ log[i].decisions = <<Deny>>
        /\ Len(tool_results) >= i

\* the commands of the tool calls that contain a deny-list string
DenyListed ==
    {c \in Commands : \E k \in 1..Len(BLOCKED_PATTERNS) : Contains(c, BLOCKED_PATTERNS[k])}

\* C3: no command that contains a deny-list string is ever spawned,
\* whatever decision or rule came before; once the executor has handled
\* such a call, its result text is the safety filter's reason.
BlockedNeverSpawned ==
    \A i \in DOMAIN log :
        (/\ calls[i].name = EXEC_TOOL_NAME
         /\ calls[i].input.command \in DenyListed)
        => /\ ~log[i].spawned
           /\ log[i].executed =>
                /\ Len(tool_results) >= i
                /\ tool_results[i] = [tool_use_id |-> calls[i].id,
                                      content |-> "command blocked: matches safety filter"]

\* "rm -rf /" went through approval and reached execute_command
BlockedCommandReachedExecutor ==
    \E i \in DOMAIN log :
        /\ calls[i].name = EXEC_TOOL_NAME
        /\ calls[i].input.command = CmdRm
        /\ Len(log[i].decisions) = 1
        /\ log[i].executed

\* C4: an exec call whose command the safety filter blocks is rejected
\* before any approval step: request_approval is never invoked for it,
\* with either approver.
BlockedRejectedBeforeApproval ==
    \A i \in DOMAIN log :
        (/\ calls[i].name = EXEC_TOOL_NAME
         /\ check_safety_filter(calls[i].input.command) # NoReason)
        => log[i].approvals = 0

\* C5: when the rule store holds a rule that matches the command of an
\* exec call, the call is executed without invoking the approver: the agent
\* never waits on request_approval for a command a stored rule matches.
MatchingRuleSkipsApprover ==
    (pc = "approving" /\ calls[idx].name = EXEC_TOOL_NAME)
        => find_matching_rule(rules, calls[idx].input.command) = 0

\* C6: when the decision for a call is AllowAlways{pattern}, the pattern is
\* in the rule store by the time the tool executor is invoked for the call
\* (about to be called, or called).
AllowAlwaysSavedBeforeExecution ==
    \A i \in DOMAIN log :
        \A k \in 1..Len(log[i].decisions) :
            (/\ log[i].decisions[k].kind = "AllowAlways"
             /\ (log[i].executed \/ (pc = "execute" /\ idx = i)))
            => /\ log[i].decisions[k].pattern = generate_pattern(calls[i].input.command)
               /\ \E j \in 1..Len(rules) : rules[j].pattern = log[i].decisions[k].pattern

\* the executor is about to be called for a call approved with allow-always
AllowAlwaysAboutToExecute ==
    /\ pc = "execute"
    /\ log[idx].decisions = <<AllowAlways(generate_pattern(CmdCargo))>>
    /\ ~log[idx].executed

\* C7: with a model that requests tools on every turn, process ends with the
\* round-limit error on the 6th model response, after exactly 5 completed
\* tool rounds; no 7th model call is made.  tool_rounds counts the responses
\* with tool calls, the refused 6th included.
RoundLimit ==
    /\ model_calls <= 6
    /\ tool_rounds <= 6
    /\ pc = "model" => (model_calls = tool_rounds /\ tool_rounds <= 5)
    /\ pc \in {"gate", "approving", "execute"} => tool_rounds <= 5
    /\ model_calls = 6 => pc = "done"
    /\ tool_rounds = 6 => (pc = "done" /\ outcome = "tool loop exceeded")
    /\ outcome = "tool loop exceeded" =>
          (pc = "done" /\ model_calls = 6 /\ tool_rounds = 6)

\* the sixth response asked for tools again
RoundLimitHit ==
    /\ outcome = "tool loop exceeded"
    /\ model_calls = 6

(* ------------------------------------------------------------------ *)
(* Properties of the approver and the pending map (SpecApprover)        *)
(* ------------------------------------------------------------------ *)

\* C8: when the timeout elapsed with no decision in the channel,
\* request_approval returns Err(ApprovalTimeout), and at its return the
\* pending map holds no entry under the request's nonce.
TimeoutExpiresEntry ==
    [][\A r \in Reqs :
          (rpc[r] = "timed_out" /\ rpc'[r] = "returned")
          => /\ rret'[r] = [ok |-> FALSE, decision |-> NoDecision,
                            err |-> "approval timed out"]
             /\ rnonce[r] \notin DOMAIN pending']_vars

\* a request nobody answered has timed out and returned
TimedOutUnanswered ==
    \E r \in Reqs :
        /\ rpc[r] = "returned"
        /\ rret[r].err = "approval timed out"
        /\ obtained[r] = 0
        /\ chan[r].state = "closed"
        /\ \A q \in Reqs \ {r} : rpc[q] = "idle"

\* C9 as stated: a callback on a nonce without a pending entry returns false.
UnknownNonceReturnsFalse ==
    \A h \in Handlers :
        (hpc[h] = "returned" /\ hnonce[h] # <<>> /\ hentry[h] = 0)
        => hret[h] = <<FALSE>>

\* C9, amended: a callback on a nonce without a pending entry delivers
\* nothing and leaves the map and every channel as they are; it is answered
\* "this approval request has expired" and handle_callback returns true.
\* A callback on a registered nonce gets the entry of exactly that nonce and
\* leaves the map without it, so that the next callback on the nonce is one
\* on a nonce without an entry.
ResolveOutcomes ==
    [][\A h \in Handlers :
          /\ (hpc[h] = "locked" /\ hpc'[h] = "returned" /\ hnonce'[h] # <<>>)
             => /\ hnonce'[h] \notin DOMAIN pending
                /\ hentry'[h] = 0
                /\ hret'[h] = <<TRUE>>
                /\ hack'[h] = "this approval request has expired"
                /\ pending' = pending
                /\ chan' = chan
                /\ delivered' = delivered
                /\ obtained' = obtained
          /\ (hpc[h] = "locked" /\ hpc'[h] \in {"edit", "unknown"})
             => /\ hnonce'[h] \in DOMAIN pending
                /\ hentry'[h] = pending[hnonce'[h]]
                /\ rnonce[hentry'[h]] = hnonce'[h]
                /\ hnonce'[h] \notin DOMAIN pending']_vars

\* a second callback on a nonce that was resolved, and its decision
\* delivered, has returned
SecondResolutionReturned ==
    \E h \in Handlers, r \in Reqs :
        /\ hpc[h] = "returned"
        /\ hentry[h] = 0
        /\ hnonce[h] = rnonce[r]
        /\ obtained[r] = 1
        /\ delivered[r] = 1

\* C10: whatever the interleaving of the callbacks on one nonce and of the
\* request's timeout: at most one callback obtains the pending entry of a
\* request, and at most one decision is put into its channel.
AtMostOneResolution ==
    \A r \in Reqs :
        /\ obtained[r] <= 1
        /\ delivered[r] <= 1
        /\ Cardinality({h \in Handlers : hentry[h] = r}) <= 1

\* one callback holds the entry, the timeout has fired, and a second
\* callback on the same nonce has come back empty-handed
RacingCallbacksAndTimeout ==
    \E h1 \in Handlers, h2 \in Handlers, r \in Reqs :
        /\ h1 # h2
        /\ hentry[h1] = r
        /\ hpc[h1] \in {"edit", "answer", "send"}
        /\ rpc[r] = "timed_out"
        /\ hpc[h2] = "returned"
        /\ hentry[h2] = 0
        /\ hnonce[h2] = rnonce[r]

(* ------------------------------------------------------------------ *)
(* Properties of concurrent requests (SpecRequests)                     *)
(* ------------------------------------------------------------------ *)

\* C11: each nonce is registered at most once: no two request_approval
\* calls that have registered and not yet returned hold the same nonce (so
\* that no registration replaces, and no timeout or callback removes, the
\* entry of another call).
NonceRegisteredOnce ==
    \A r1 \in Reqs, r2 \in Reqs :
        (/\ r1 # r2
         /\ rpc[r1] \in {"waiting", "timed_out"}
         /\ rpc[r2] \in {"waiting", "timed_out"})
        => rnonce[r1] # rnonce[r2]

\* C12: after a request_approval call that had registered has returned
\* (with a decision, by timeout or by a dropped slot), the map holds no entry
\* under that call's nonce; every entry of the map belongs to a call that
\* has not returned.
NoEntryOutlivesItsCall ==
    /\ \A r \in Reqs :
          (rpc[r] = "returned" /\ chan[r].state # "none")
          => rnonce[r] \notin DOMAIN pending
    /\ \A n \in DOMAIN pending : rpc[pending[n]] \in {"waiting", "timed_out"}

(* ------------------------------------------------------------------ *)
(* Further properties of the approver (SpecApprover)                    *)
(* ------------------------------------------------------------------ *)

\* C13: a well-formed callback whose nonce has no entry in the map (never
\* registered, already resolved, or expired) is answered "this approval
\* request has expired", changes neither the map nor anything of any
\* request (channel, return value, delivered decisions), and handle_callback
\* returns normally.
StaleCallbackIsNoOp ==
    [][\A h \in Handlers :
          (/\ hpc[h] = "locked"
           /\ hpc'[h] # "locked"
           /\ hnonce[h] \notin DOMAIN pending)
          => /\ hpc'[h] = "returned"
             /\ hret'[h] # <<>>
             /\ hack'[h] = "this approval request has expired"
             /\ pending' = pending
             /\ reqVars' = reqVars]_vars

\* a callback on the nonce of a request that had timed out unanswered
StaleAfterExpiry ==
    \E h \in Handlers :
        /\ hpc[h] = "returned"
        /\ hentry[h] = 0
        /\ hnonce[h] = rnonce[AgentReq]
        /\ rpc[AgentReq] = "returned"
        /\ rret[AgentReq].err = "approval timed out"
        /\ obtained[AgentReq] = 0

\* C15: for a command that references a sensitive environment variable,
\* request_approval never returns AllowAlways, whatever callback data
\* arrives for its nonce.
SensitiveNeverAllowAlways ==
    \A r \in Reqs :
        (rpc[r] = "returned" /\ references_sensitive_env(rcmd[r]))
        => rret[r].decision.kind # "AllowAlways"

(* ------------------------------------------------------------------ *)
(* Further properties of the agent loop (Spec)                          *)
(* ------------------------------------------------------------------ *)

\* C14: a callback with a registered nonce and an unknown action is
\* answered "unknown action" and the request waiting on that nonce does not
\* fail because of it: its sender is not dropped by the handler.
UnknownActionKeepsRequest ==
    \A h \in Handlers :
        (hpc[h] = "returned" /\ hack[h] = "unknown action")
        => chan[hentry[h]].state # "sender_dropped"

\* per command text of a request: its first token followed by " *"
FirstTokenStar ==
    [c \in Commands \cup {UnknownCommand} |-> split_whitespace(c)[1] \o <<" ", "*">>]

\* C16: the pattern of an AllowAlways that request_approval returns is the
\* first token of the requested command followed by " *", whatever the
\* callback data held after the nonce; nothing of the callback data but the
\* kind of the decision travels to the request, and every pattern in the
\* rule store is the one generated from a requested command.  Callback data
\* with more text after allow_always is no allow-always at all.
PatternFromCommandOnly ==
    /\ (/\ rpc[AgentReq] = "returned"
        /\ rret[AgentReq].decision.kind = "AllowAlways")
       => rret[AgentReq].decision.pattern = FirstTokenStar[rcmd[AgentReq]]
    /\ chan[AgentReq].value.pattern = <<>>
    /\ \A h \in Handlers : hdec[h].pattern = <<>>
    /\ \A j \in 1..Len(rules) :
          \E c \in Commands : rules[j].pattern = FirstTokenStar[c]

\* request_approval has returned AllowAlways{"cargo *"}
AllowAlwaysReturned ==
    /\ rpc[AgentReq] = "returned"
    /\ rcmd[AgentReq] = CmdCargo
    /\ rret[AgentReq].decision
          = [kind |-> "AllowAlways", pattern |-> <<"c", "a", "r", "g", "o", " ", "*">>]

\* C17: within one round the i-th tool result carries the id of the i-th
\* tool call of the response, whatever the decisions and outcomes; a round
\* that is complete has one result per call.
ResultsInCallOrder ==
    /\ Len(tool_results) <= Len(calls)
    /\ \A i \in 1..Len(tool_results) : tool_results[i].tool_use_id = calls[i].id
    /\ \A i \in 1..Len(calls) : \A j \in 1..Len(calls) :
          calls[i].id = calls[j].id => i = j
    /\ (pc = "model" /\ outcome = "none") => Len(tool_results) = Len(calls)

\* a round of two calls is complete: the first was denied, the second ran
TwoResultsDeniedThenRun ==
    /\ Len(tool_results) = 2
    /\ log[1].decisions = <<Deny>>
    /\ log[2].executed
    /\ tool_results[1].content = "command denied by user"
    /\ tool_results[2].content # "command denied by user"

\* C18: an approval timeout with a reachable approver (the request was
\* published and nobody answered in time) does not end process with an
\* error.
ApprovalTimeoutNonFatal ==
    ~(/\ pc = "done"
      /\ outcome = "approval timed out"
      /\ shown[AgentReq] = "command"
      /\ obtained[AgentReq] = 0)

(* ------------------------------------------------------------------ *)
(* Properties of the pattern matcher (SpecMatcher)                      *)
(* ------------------------------------------------------------------ *)

ExactPatternTokenForToken ==
    LET pt == split_whitespace(m_pattern)
        ct == split_whitespace(m_command)
    IN  (/\ m_result # <<>>
         /\ (pt = <<>> \/ pt[Len(pt)] # <<"*">>)
         /\ \A i \in 1..Len(m_command) : ~IsSeparatorAt(m_command, i))
        => (m_result = <<TRUE>>
              <=> /\ Len(pt) = Len(ct)
                  /\ \A i \in 1..Len(pt) : pt[i] = <<"*">> \/ pt[i] = ct[i])

\* C21: for a command with a separator, matches_rule is true if and only
\* if the pattern matches every sub-command of the split, the empty ones
\* of a leading, a doubled and a trailing separator included.
EverySubcommandMustMatch ==
    LET n == Len(m_command)
        subs == split_subcommands(m_command)
        trailing == /\ n > 0
                    /\ \/ m_command[n] \in {"|", ";"}
                       \/ (n > 1 /\ m_command[n - 1] = "&" /\ m_command[n] = "&")
        all == IF trailing THEN Append(subs, <<>>) ELSE subs
    IN  (m_result # <<>> /\ \E i \in 1..n : IsSeparatorAt(m_command, i))
        => (m_result = <<TRUE>>
              <=> \A k \in 1..Len(all) : matches_single(m_pattern, Trim(all[k])))

\* C22: the pattern generated from a command matches that command, chained
\* and piped commands included.
GeneratedPatternMatches ==
    (m_result # <<>> /\ m_pattern = generate_pattern(m_command))
    => m_result = <<TRUE>>

(* ------------------------------------------------------------------ *)
(* Properties of the rule store (SpecRules)                             *)
(* ------------------------------------------------------------------ *)

\* C23: after every save and delete no two listed rules have the same
\* pattern, and a save of a pattern that is stored leaves the listed rules
\* (ids, patterns, order) as they were.
SavedPatternsDeduplicated ==
    [][/\ \A i \in 1..Len(rules') : \A j \in 1..Len(rules') :
             rules'[i].pattern = rules'[j].pattern => i = j
       /\ (/\ db_op'.name = "save_approval_rule"
           /\ \E k \in 1..Len(rules) : rules[k].pattern = db_op'.arg)
          => list_approval_rules(rules') = list_approval_rules(rules)]_vars

\* a stored pattern that is not the newest rule was saved again
DuplicateSaveIgnored ==
    /\ db_op.name = "save_approval_rule"
    /\ db_op.ret = "ok"
    /\ Len(rules) = 2
    /\ rules[1].pattern = db_op.arg

\* C24: find_matching_rule returns the id of the first rule, in the order
\* of insertion, whose pattern matches the command, returns None exactly
\* when no stored pattern matches, and leaves the rules as they are.
FindReturnsFirstMatch ==
    [][db_op'.name = "find_matching_rule"
       => LET id == db_op'.ret
              c == db_op'.arg
          IN  /\ rules' = rules
              /\ \A i \in 1..Len(rules) : \A j \in 1..Len(rules) :
                    i < j => rules[i].id < rules[j].id
              /\ \/ /\ id = 0
                    /\ \A k \in 1..Len(rules) : ~matches_rule(rules[k].pattern, c)
                 \/ \E k \in 1..Len(rules) :
                       /\ rules[k].id = id
                       /\ matches_rule(rules[k].pattern, c)
                       /\ \A j \in 1..(k - 1) : ~matches_rule(rules[j].pattern, c)]_vars

\* two stored rules match the command, and the first one's id was returned
FirstOfTwoMatchesFound ==
    /\ db_op.name = "find_matching_rule"
    /\ Len(rules) >= 2
    /\ db_op.ret = rules[1].id
    /\ matches_rule(rules[1].pattern, db_op.arg)
    /\ matches_rule(rules[2].pattern, db_op.arg)

(* ------------------------------------------------------------------ *)
(* Properties of the tool executor (Spec, SpecExec)                     *)
(* ------------------------------------------------------------------ *)

\* C25: handling a tool call never ends with an error returned to
\* process: a failure to store a fact included, the outcome is a tool
\* result.
ToolCallNeverFails ==
    ~(/\ pc = "done"
      /\ outcome = "database error"
      /\ idx > 0
      /\ calls[idx].name = REMEMBER_FACT_TOOL_NAME)

\* C26: in no state has execute_command returned its result while the
\* child process of the command is still running.
NoChildOutlivesResult ==
    ~(e_pc = "returned" /\ e_child = "running")

\* C29: check_safety_filter returns a reason exactly when the command
\* contains one of the deny-list strings: "rm -rf /" and the fork bomb are
\* blocked wherever they stand in the command, "ls -la" is not.
FilterBlocksExactlyDenyList ==
    LET Listed ==
            \E k \in 1..Len(BLOCKED_PATTERNS) :
                \E i \in 1..Len(e_command) :
                    /\ i + Len(BLOCKED_PATTERNS[k]) - 1 <= Len(e_command)
                    /\ \A d \in 1..Len(BLOCKED_PATTERNS[k]) :
                          e_command[i + d - 1] = BLOCKED_PATTERNS[k][d]
    IN  e_pc \notin {"off", "start"}
        => /\ Listed <=> (e_pc = "returned" /\ e_result = SafetyFilterReason)
           /\ e_command \in {CmdRm, CmdForkBomb} => Listed
           /\ e_command = CmdLs => ~Listed

\* the fork bomb inside a longer command was blocked
ForkBombBlocked ==
    /\ e_pc = "returned"
    /\ e_result = SafetyFilterReason
    /\ e_command = <<"s", "u", "d", "o", " ">> \o CmdForkBomb \o <<" ">>

(* ------------------------------------------------------------------ *)
(* Properties of the lock and of publishing                             *)
(* ------------------------------------------------------------------ *)

\* C27: the lock of the map is held only around a single insert or remove:
\* a request_approval call holds it only right before its insert or, after
\* its timeout, right before its remove, a handle_callback call only right
\* before its remove; no call that waits for the publish, the message edit,
\* the callback answer or the reply holds it.
LockOnlyAroundMapOperation ==
    /\ lock = Free
       \/ (\E r \in Reqs : lock = RequestHolds(r))
       \/ (\E h \in Handlers : lock = CallbackHolds(h))
    /\ \A r \in Reqs :
          lock = RequestHolds(r) => rpc[r] \in {"register", "timed_out"}
    /\ \A h \in Handlers :
          lock = CallbackHolds(h) => hpc[h] = "locked"
    /\ \A r \in Reqs :
          rpc[r] \in {"publish", "waiting", "returned"} => lock # RequestHolds(r)
    /\ \A h \in Handlers :
          hpc[h] \in {"unknown", "edit", "answer", "send"} => lock # CallbackHolds(h)

\* a callback holds the lock while the request waits for its reply and
\* another callback waits for its message edit
LockedWhileOthersWait ==
    \E h1 \in Handlers, h2 \in Handlers :
        /\ lock = CallbackHolds(h1)
        /\ hpc[h2] = "edit"
        /\ rpc[AgentReq] = "waiting"

\* C28: when publishing fails, request_approval returns that error and the
\* map is as it was before the call: the step leaves it unchanged, and it
\* holds no entry of the failed request.
FailedPublishLeavesMap ==
    [][\A r \in Reqs :
          (rpc[r] = "publish" /\ rpc'[r] = "returned")
          => /\ rret'[r] = [ok |-> FALSE, decision |-> NoDecision,
                            err |-> "telegram error"]
             /\ pending' = pending
             /\ \A n \in DOMAIN pending' : pending'[n] # r
             /\ chan'[r].state = "none"]_vars

\* publishing failed for one request while another one is registered
PublishFailedBesideEntry ==
    \E r \in Reqs, q \in Reqs :
        /\ rpc[r] = "returned"
        /\ rret[r].err = "telegram error"
        /\ rpc[q] = "waiting"
        /\ rnonce[q] \in DOMAIN pending
        /\ pending[rnonce[q]] = q

\* C30: once the request is published, the first callback with its nonce
\* and a valid action resolves it: none is answered "expired" because the
\* entry is not registered yet.
PublishedCallbackResolves ==
    \A h \in Handlers, r \in Reqs :
        (/\ hpc[h] = "returned"
         /\ hack[h] = "this approval request has expired"
         /\ hdec[h] # NoDecision
         /\ hnonce[h] = rnonce[r])
        => ~(shown[r] = "command" /\ rpc[r] = "register")

\* C31: a message that shows a decision belongs to a request that returns
\* that decision: no request has returned the timeout error while its
\* message shows "approved (once)", "approved (always)" or "denied".
ShownDecisionIsReturned ==
    \A r \in Reqs :
        (/\ rpc[r] = "returned"
         /\ shown[r] \in {DecisionText(AllowOnce), DecisionText(AllowAlways(<<>>)),
                          DecisionText(Deny)})
        => /\ rret[r].ok
           /\ DecisionText(rret[r].decision) = shown[r]

(* ------------------------------------------------------------------ *)
(* Further properties of Agent::process (Spec)                          *)
(* ------------------------------------------------------------------ *)

\* C32: when process ended with the round-limit error, no tool call of the
\* refused response was gated, approved or executed: no approval was
\* requested for any of them, none ran, and the round has no result.
RefusedRoundUntouched ==
    outcome = "tool loop exceeded"
    => /\ pc = "done"
       /\ calls # <<>>
       /\ \A i \in 1..Len(calls) :
             /\ log[i].approvals = 0
             /\ log[i].decisions = <<>>
             /\ ~log[i].executed
             /\ ~log[i].spawned
       /\ tool_results = <<>>
       /\ rpc[AgentReq] = "idle"
       /\ pending = <<>>

\* the refused response asked for two calls, an exec call first
RefusedRoundOfTwoCalls ==
    /\ outcome = "tool loop exceeded"
    /\ Len(calls) = 2
    /\ calls[1].name = EXEC_TOOL_NAME
    /\ calls[2].name = REMEMBER_FACT_TOOL_NAME

\* C33: the conversation starts with the user message and alternates user
\* and assistant messages; while a round is under way the assistant message
\* with one tool-use record per call of the response is its last message,
\* and a completed round has appended exactly two messages: that assistant
\* message and one user message with exactly one tool result per call, in
\* the order and with the ids of the calls.
ConversationAlternates ==
    LET n == Len(messages)
        ToolUses == [i \in 1..Len(calls) |-> tool_use_content(calls[i])]
    IN  /\ n >= 1
        /\ messages[1].role = "user"
        /\ \A i \in 1..n :
              messages[i].role = IF i % 2 = 1 THEN "user" ELSE "assistant"
        /\ pc \in {"gate", "approving", "execute"}
           => /\ n = 2 * tool_rounds
              /\ messages[n] = assistant_with_content(ToolUses)
        /\ (pc = "model" /\ tool_rounds > 0)
           => /\ n = 2 * tool_rounds + 1
              /\ messages[n - 1] = assistant_with_content(ToolUses)
              /\ messages[n].role = "user"
              /\ Len(messages[n].content) = Len(calls)
              /\ \A i \in 1..Len(calls) :
                    /\ messages[n].content[i] = tool_results[i]
                    /\ messages[n].content[i].tool_use_id
                          = messages[n - 1].content[i].id
        /\ tool_rounds = 0 => n = 1

\* the second round of two calls is complete
SecondRoundAppended ==
    /\ pc = "model"
    /\ tool_rounds = 2
    /\ Len(messages) = 5
    /\ Len(messages[4].content) = 2
    /\ Len(messages[5].content) = 2

(* ------------------------------------------------------------------ *)
(* Further properties of the approver (SpecApproverFair, SpecApprover)  *)
(* ------------------------------------------------------------------ *)

\* C34: a request_approval call whose publish step returned the message
\* id eventually returns, with a decision or with the timeout error,
\* whatever callbacks arrive or fail to arrive: the elapsing timer ends the
\* wait for the reply.
PublishedRequestReturns ==
    (rpc[AgentReq] = "register")
        ~> (/\ rpc[AgentReq] = "returned"
            /\ \/ rret[AgentReq].ok
               \/ rret[AgentReq].err = "approval timed out")

\* the request has returned the timeout error while one callback is about
\* to send its decision and another one holds the lock
TimedOutAmongCallbacks ==
    /\ rpc[AgentReq] = "returned"
    /\ rret[AgentReq].err = "approval timed out"
    /\ \E h1 \in Handlers, h2 \in Handlers :
          /\ hpc[h1] = "send"
          /\ hentry[h1] = AgentReq
          /\ lock = CallbackHolds(h2)

\* per callback data: whether it has the shape exec:<nonce>:<action>, that
\* is at least two colons and "exec" before the first one
ExecShaped ==
    [data \in Payloads |->
        LET colons == {i \in 1..Len(data) : data[i] = ":"}
        IN  /\ Cardinality(colons) >= 2
            /\ \E i \in colons :
                  /\ \A j \in colons : i <= j
                  /\ SubSeq(data, 1, i - 1) = ExecPrefix]

\* C35: handle_callback returns false exactly for callback data that is
\* not of the shape exec:<nonce>:<action>, and then it changes neither the
\* map nor any request and sends no answer; for data of that shape it goes
\* on to the map and returns true.
MalformedCallbackRejected ==
    [][\A h \in Handlers :
          /\ (hpc[h] = "idle" /\ hpc'[h] # "idle")
             => IF ExecShaped[hdata'[h]]
                THEN hpc'[h] = "locked" /\ hret'[h] = <<>>
                ELSE /\ hpc'[h] = "returned"
                     /\ hret'[h] = <<FALSE>>
                     /\ hack'[h] = "none"
                     /\ pending' = pending
                     /\ lock' = lock
                     /\ reqVars' = reqVars
          /\ (hpc[h] \notin {"idle", "returned"} /\ hpc'[h] = "returned")
             => /\ hret'[h] = <<TRUE>>
                /\ ExecShaped[hdata[h]]]_vars

\* data with another prefix was rejected while the request it names waits
WrongPrefixRejected ==
    \E h \in Handlers :
        /\ hpc[h] = "returned"
        /\ hret[h] = <<FALSE>>
        /\ hdata[h] = <<"h", "i">> \o Colon \o rnonce[AgentReq] \o Colon \o ActDeny
        /\ rpc[AgentReq] = "waiting"
        /\ rnonce[AgentReq] \in DOMAIN pending

(* ------------------------------------------------------------------ *)
(* Properties of the gate over all tools (SpecTools)                    *)
(* ------------------------------------------------------------------ *)

\* C36: request_approval is called exactly for the calls named exec: a call
\* of remember_fact, web_search, web_fetch or of an unknown tool has no
\* approval request and no decision, an exec call that passed the gate has
\* exactly one request; and while a call of another tool is handled no
\* request_approval call is under way and the map is empty.
ApproverExactlyForExec ==
    /\ \A i \in 1..Len(calls) :
          LET gated == i < idx \/ (i = idx /\ pc # "gate")
          IN  IF calls[i].name = EXEC_TOOL_NAME
              THEN log[i].approvals = IF gated THEN 1 ELSE 0
              ELSE log[i].approvals = 0 /\ log[i].decisions = <<>>
    /\ (pc \in {"gate", "execute"} /\ calls[idx].name # EXEC_TOOL_NAME)
       => /\ rpc[AgentReq] = "idle"
          /\ pending = <<>>
          /\ lock = Free

\* a web_fetch call went past the gate after an approved exec call
WebFetchPastGate ==
    /\ pc = "execute"
    /\ idx = 2
    /\ calls[2].name = WEB_FETCH_TOOL_NAME
    /\ calls[1].name = EXEC_TOOL_NAME
    /\ log[1].approvals = 1
    /\ log[2].approvals = 0

(* ------------------------------------------------------------------ *)
(* Further properties of the matcher (SpecMatcher)                      *)
(* ------------------------------------------------------------------ *)

\* C37: for a command of one segment, a wildcard in a non-final position
\* of the pattern stands for exactly one token of the command: the match
\* fails when the command has no token at that position, a match aligns
\* every pattern token before a trailing wildcard with the command token
\* at its position, and a pattern with wildcards but no trailing one
\* matches only commands with as many tokens as it has.
MiddleWildcardTakesOneToken ==
    LET subs == split_subcommands(m_command)
        pt == split_whitespace(m_pattern)
        ct == split_whitespace(Trim(subs[1]))
        n == Len(pt)
    IN  (m_result # <<>> /\ Len(subs) = 1)
        => /\ \A i \in 1..(n - 1) :
                 (pt[i] = Star /\ i > Len(ct)) => m_result = <<FALSE>>
           /\ m_result = <<TRUE>>
              => \A i \in 1..n :
                    (i < n \/ pt[i] # Star)
                    => /\ i <= Len(ct)
                       /\ pt[i] # Star => ct[i] = pt[i]
           /\ (/\ m_result = <<TRUE>>
               /\ n > 0
               /\ pt[n] # Star
               /\ \E i \in 1..n : pt[i] = Star)
              => Len(ct) = n

\* "a * b" matched "a b b"
MiddleWildcardMatched ==
    /\ m_result = <<TRUE>>
    /\ m_pattern = <<"a", " ", "*", " ", "b">>
    /\ m_command = <<"a", " ", "b", " ", "b">>

(* ------------------------------------------------------------------ *)
(* Further properties of the command executor (SpecExec)                *)
(* ------------------------------------------------------------------ *)

\* C38: the timeout a command is awaited with is 30 seconds when the caller
\* gave none, the value the caller gave when that is at most 300, and 300
\* when it is more: it is never above 300, a value above the ceiling is no
\* error but runs the command like any other, and the timed-out result
\* names the applied timeout.
TimeoutClamped ==
    /\ e_pc \in {"spawn", "wait"} => e_wait_secs # <<>>
    /\ e_wait_secs # <<>>
       => /\ e_wait_secs[1] <= 300
          /\ e_timeout = <<>> => e_wait_secs[1] = 30
          /\ (e_timeout # <<>> /\ e_timeout[1] <= 300) => e_wait_secs[1] = e_timeout[1]
          /\ (e_timeout # <<>> /\ e_timeout[1] > 300) => e_wait_secs[1] = 300
    /\ (e_pc = "returned" /\ e_wait_secs # <<>>)
       => e_result \in {<<"exit code: ", "code">>,
                        <<"failed to execute command: ", "err">>,
                        <<"command timed out after ", e_wait_secs[1], "s">>}

\* a command asked to run for 1000 seconds is awaited for 300
ThousandSecondsClamped ==
    /\ e_pc = "wait"
    /\ e_child = "running"
    /\ e_timeout = <<1000>>
    /\ e_wait_secs = <<300>>

(* ------------------------------------------------------------------ *)
(* Properties of the auto-approving approver (Spec)                     *)
(* ------------------------------------------------------------------ *)

\* C39: with the auto-approving approver every request_approval call
\* returns AutoApproved at once: the call has returned Ok(AutoApproved) as
\* soon as it was made, every decision of the conversation is AutoApproved
\* (never Deny, never AllowAlways), process never ends with an error of the
\* approver, no message is published, no callback is handled, and the map
\* and its lock stay untouched.
CliApproverAutoApproves ==
    approver = "cli"
    => /\ pc = "approving"
          => /\ rpc[AgentReq] = "returned"
             /\ rret[AgentReq] = [ok |-> TRUE,
                                  decision |-> [kind |-> "AutoApproved", pattern |-> <<>>],
                                  err |-> "none"]
       /\ rpc[AgentReq] \in {"idle", "returned"}
       /\ \A i \in 1..Len(log) :
             \A k \in 1..Len(log[i].decisions) :
                 log[i].decisions[k].kind = "AutoApproved"
       /\ \A i \in 1..Len(log) :
             (calls[i].name = EXEC_TOOL_NAME /\ log[i].executed)
             => Len(log[i].decisions) = 1
       /\ outcome \notin {"approval timed out", "telegram error"}
       /\ pending = <<>>
       /\ lock = Free
       /\ rules = <<>>
       /\ \A r \in Reqs : shown[r] = "none" /\ chan[r].state = "none"
       /\ \A h \in Handlers : hpc[h] = "idle"

\* the auto-approving approver was asked about rm -rf / and has answered
CliApproverAnswered ==
    /\ approver = "cli"
    /\ pc = "approving"
    /\ calls[idx].input.command = CmdRm
    /\ rret[AgentReq].ok
    /\ rret[AgentReq].decision.kind = "AutoApproved"

====
